---- MODULE Spec2Model ----
(***************************************************************************)
(* emdr-relay-go: a deduplicating ZeroMQ relay.  main() receives messages  *)
(* from the upstream relays, fingerprints each with FNV-1/32, drops the    *)
(* ones whose fingerprint is in an LRU cache, republishes the others and, *)
(* when CouchbaseCache is set, decodes them and upserts their recent       *)
(* rowsets into a Couchbase bucket.  periodic_exiter() ends the process    *)
(* every 12 hours.                                                         *)
(*                                                                         *)
(* Numbers: TLC's integers are 32 bits wide, so a 32-bit hash is kept as   *)
(* two 16-bit halves and an int64 Unix time as a record [hi, lo] standing  *)
(* for hi * 2^31 + lo.                                                     *)
(***************************************************************************)
EXTENDS Integers, Sequences, FiniteSets, TLC

(***************************************************************************)
(* Bounds of the model.                                                    *)
(***************************************************************************)
\* The source sizes the cache for 1000 entries (cache_value_size * 1000);
\* the model keeps the formula and scales the factor.
CacheSlots == 2
\* Receives of the relay loop, over all process lifetimes, when
\* CouchbaseCache is off.
MaxMsgs == 5
\* The same when CouchbaseCache is on and every forward goes through the
\* decode path.
MaxDocMsgs == 3
\* Seconds the wall clock advances during a run.
MaxElapsed == 1
\* Restarts by the external process supervisor.
MaxRestarts == 1

(***************************************************************************)
(* Fingerprint: fnv.New32() over the message bytes, rendered with "%x".    *)
(***************************************************************************)
RECURSIVE Xor8(_, _, _)
\* Bitwise exclusive or of the n low bits of a and b.
Xor8(a, b, n) ==
    IF n = 0 THEN 0
    ELSE (((a % 2) + (b % 2)) % 2) + 2 * Xor8(a \div 2, b \div 2, n - 1)

\* FNV-1 offset basis 0x811c9dc5.
FnvOffset32 == [hi |-> 33052, lo |-> 40389]

\* h * 0x01000193 mod 2^32, with 0x01000193 = 2^24 + 403.
FnvMul32(h) ==
    LET p == h.lo * 403
    IN  [hi |-> ((h.hi * 403) + (p \div 65536) + ((h.lo % 256) * 256)) % 65536,
         lo |-> p % 65536]

\* One byte of FNV-1: multiply by the prime, then xor the byte in.
FnvStep(h, c) ==
    LET t == FnvMul32(h)
    IN  [hi |-> t.hi, lo |-> (t.lo \div 256) * 256 + Xor8(t.lo % 256, c, 8)]

RECURSIVE FnvWrite(_, _)
FnvWrite(h, bytes) ==
    IF bytes = <<>> THEN h ELSE FnvWrite(FnvStep(h, Head(bytes)), Tail(bytes))

\* h.Sum([]byte{}): the four bytes of the hash, big-endian.
FnvSum(h) == <<h.hi \div 256, h.hi % 256, h.lo \div 256, h.lo % 256>>

HexDigit(n) == SubSeq("0123456789abcdef", n + 1, n + 1)

RECURSIVE SprintfHex(_)
\* fmt.Sprintf("%x", bytes): two lower-case hex digits per byte.
SprintfHex(bytes) ==
    IF bytes = <<>> THEN ""
    ELSE HexDigit(Head(bytes) \div 16) \o HexDigit(Head(bytes) % 16)
             \o SprintfHex(Tail(bytes))

\* The cache key of a message (lines 143-147).
Fingerprint(bytes) == SprintfHex(FnvSum(FnvWrite(FnvOffset32, bytes)))

(***************************************************************************)
(* strconv.Itoa.                                                           *)
(***************************************************************************)
RECURSIVE ItoaNat(_)
ItoaNat(n) ==
    IF n < 10 THEN HexDigit(n) ELSE ItoaNat(n \div 10) \o HexDigit(n % 10)

Itoa(n) == IF n < 0 THEN "-" \o ItoaNat(0 - n) ELSE ItoaNat(n)

(***************************************************************************)
(* Time.  A Unix time (int64 seconds) is [hi, lo] = hi * 2^31 + lo.        *)
(***************************************************************************)
MaxInt32 == 2147483647
MinInt32 == (0 - 2147483647) - 1

Time(h, l) == [hi |-> h, lo |-> l]

\* t + k seconds, 0 <= k <= MaxInt32.
AddSecs(t, k) ==
    IF t.lo > MaxInt32 - k
    THEN Time(t.hi + 1, (t.lo - (MaxInt32 - k)) - 1)
    ELSE Time(t.hi, t.lo + k)

TimeLeq(a, b) == a.hi < b.hi \/ (a.hi = b.hi /\ a.lo <= b.lo)

\* int32(t) for t >= 0: the low 32 bits of t, read as a signed number.
Int32(t) == IF t.hi % 2 = 0 THEN t.lo ELSE (t.lo - MaxInt32) - 1

\* a - k in int32 arithmetic (wraps around), 0 < k <= MaxInt32.
Sub32(a, k) ==
    IF a >= MinInt32 + k THEN a - k
    ELSE ((a + MaxInt32) + 1) + ((MaxInt32 - k) + 1)

\* t >= a for an int64 time t >= 0 and an int32 a.
GeInt32(t, a) == t.hi > 0 \/ t.lo >= a

\* The freshness test of line 174:
\* element.GeneratedAt.Unix() >= int32(time.Now().Unix())-3600
IsRecent(generatedAt, clock) == GeInt32(generatedAt, Sub32(Int32(clock), 3600))

(***************************************************************************)
(* Payloads.  ZlibDecode and json.Unmarshal are functions of the message   *)
(* bytes; the model tabulates them over the messages the relays send.  The *)
(* byte strings stand for the zlib streams of the JSON texts quoted here.  *)
(***************************************************************************)
\* 2017-07-14T02:40:00Z
T0 == Time(0, 1500000000)
\* 2038-01-19T03:14:07Z, the last second an int32 holds.
TMax32 == Time(0, MaxInt32)
\* 2038-01-19T04:14:06Z = 2^31 + 3599
T2038 == Time(1, 3599)

\* A zero-length message; also what receiver.Recv returns with an error.
MsgEmpty == <<>>
\* The zlib stream of a text cut off in the middle: not JSON.
MsgSyntax == <<120, 156, 1>>
\* The zlib stream of a document whose "version" is a number.
MsgType == <<120, 156, 2>>
\* The zlib stream of a well-formed history document.
MsgValid == <<120, 156, 3>>

Messages == {MsgEmpty, MsgSyntax, MsgType, MsgValid}

TextSyntax == "{\"resultType\":\"orders\",\"rowsets\":[{\"regionID\":1"
TextType ==
    "{\"resultType\":\"orders\",\"version\":1,\"rowsets\":[{\"generatedAt\":\"2017-07-14T02:39:50Z\",\"regionID\":-7,\"typeID\":0}]}"
TextValid ==
    "{\"resultType\":\"history\",\"version\":\"0.1\",\"uploadKeys\":[{\"name\":\"emk\",\"key\":\"abc\"}],\"rowsets\":[{\"generatedAt\":\"2017-07-14T01:40:00Z\",\"regionID\":10000210,\"typeID\":34},{\"generatedAt\":\"2038-01-19T03:14:07Z\",\"regionID\":10000002,\"typeID\":35}]}"

\* var m EMDRMsg (line 167): the zero value, with the fields main reads.
EMDRMsg == [ResultType |-> "", UploadKeys |-> <<>>, Rowsets |-> <<>>]

\* ZlibDecode(encoded): zlib.NewReader fails on a stream without a zlib
\* header (err set, decoded nil); otherwise the inflated bytes.
ZlibDecode(encoded) ==
    CASE encoded = MsgSyntax -> [decoded |-> TextSyntax, err |-> FALSE]
      [] encoded = MsgType   -> [decoded |-> TextType, err |-> FALSE]
      [] encoded = MsgValid  -> [decoded |-> TextValid, err |-> FALSE]
      [] OTHER               -> [decoded |-> "", err |-> TRUE]

\* json.Unmarshal(decoded, &m) on a zero m: a syntax error leaves m
\* untouched; a type mismatch in one field is reported after the other
\* fields have been filled in.
Unmarshal(decoded) ==
    CASE decoded = TextValid ->
           [m |-> [ResultType |-> "history",
                   UploadKeys |-> <<[name |-> "emk", key |-> "abc"]>>,
                   Rowsets |-> <<[GeneratedAt |-> Time(0, 1499996400),
                                  RegionID |-> 10000210, TypeID |-> 34],
                                 [GeneratedAt |-> TMax32,
                                  RegionID |-> 10000002, TypeID |-> 35]>>],
            err |-> FALSE]
      [] decoded = TextType ->
           [m |-> [ResultType |-> "orders",
                   UploadKeys |-> <<>>,
                   Rowsets |-> <<[GeneratedAt |-> Time(0, 1499999990),
                                  RegionID |-> 0 - 7, TypeID |-> 0]>>],
            err |-> TRUE]
      [] OTHER -> [m |-> EMDRMsg, err |-> TRUE]

(***************************************************************************)
(* The LRU cache of package cache: a list of keys, most recently used      *)
(* first; every value weighs Size() bytes.                                 *)
(***************************************************************************)
\* unsafe.Sizeof(CacheValue{}): a struct of one bool.
cache_value_size == 1
\* Mutant: the byte budget is one entry too large.
cache_size_limit_OneMore == cache_value_size * (CacheSlots + 1)

\* Line 80: the cache's byte budget.
cache_size_limit == cache_value_size * CacheSlots

\* Mutant: Size() reports an empty value.
Size_Zero == cache_value_size - 1

\* (*CacheValue).Size()
Size == cache_value_size

NewLRUCache(capacity) == [capacity |-> capacity, list |-> <<>>]

Has(c, key) == \E i \in DOMAIN c.list : c.list[i] = key

MoveToFront(list, key) == <<key>> \o SelectSeq(list, LAMBDA e : e # key)

RECURSIVE CheckCapacity(_)
\* Drop entries from the least recently used end while over the byte budget.
CheckCapacity(c) ==
    IF Len(c.list) * Size > c.capacity
    THEN CheckCapacity([c EXCEPT !.list = SubSeq(c.list, 1, Len(c.list) - 1)])
    ELSE c

\* cache.Get(key): a hit moves the entry to the front; a miss changes nothing.
LRUGet(c, key) ==
    IF Has(c, key) THEN [c EXCEPT !.list = MoveToFront(c.list, key)] ELSE c

\* cache.Set(key, value): the entry becomes the most recently used one and
\* the least recently used entries are evicted to fit the capacity.
LRUSet(c, key) == CheckCapacity([c EXCEPT !.list = MoveToFront(c.list, key)])

(***************************************************************************)
(* State.                                                                  *)
(***************************************************************************)
VARIABLES
    status,         \* "running" or "exited"
    exitCode,       \* exit status of the process once exited, else -1
    life,           \* number of restarts so far
    pc,             \* the statement of main's loop to execute next
    CouchbaseCache, \* Configuration.CouchbaseCache
    cache,          \* the LRU cache
    msg,            \* loop locals
    zmq_err,
    cache_key,
    decoded,
    m,
    idx,            \* position of the range loop in m.Rowsets
    now,            \* the wall clock, time.Now().Unix()
    elapsed,        \* seconds the clock has advanced
    outbound,       \* messages this process published, oldest first
    bucket,         \* calls of b.Set by this process, oldest first
    tests,          \* history: outcomes of the freshness test of line 174
    hist,           \* history: one record per loop iteration
    received,       \* history: receives over all process lifetimes
    prior           \* history: keys the caches of earlier lifetimes ended with

vars == <<status, exitCode, life, pc, CouchbaseCache, cache, msg, zmq_err,
          cache_key, decoded, m, idx, now, elapsed, outbound, bucket, tests, hist,
          received, prior>>

locals == <<msg, zmq_err, cache_key, decoded, m, idx>>

StartTimes == {T0, T2038}

\* The loop locals before an iteration has assigned them.
LocalsCleared ==
    /\ msg' = MsgEmpty
    /\ zmq_err' = FALSE
    /\ cache_key' = ""
    /\ decoded' = ""
    /\ m' = EMDRMsg
    /\ idx' = 0

Init ==
    /\ status = "running"
    /\ exitCode = 0 - 1
    /\ life = 0
    /\ pc = "Recv"
    /\ CouchbaseCache \in BOOLEAN
    /\ cache = NewLRUCache(cache_size_limit)
    /\ msg = MsgEmpty
    /\ zmq_err = FALSE
    /\ cache_key = ""
    /\ decoded = ""
    /\ m = EMDRMsg
    /\ idx = 0
    /\ now \in StartTimes
    /\ elapsed = 0
    /\ outbound = <<>>
    /\ bucket = <<>>
    /\ tests = <<>>
    /\ hist = <<>>
    /\ received = 0
    /\ prior = {}

\* Sets a field of the current iteration's history record.
Note(field, value) == [hist EXCEPT ![Len(hist)][field] = value]

(***************************************************************************)
(* main's loop (lines 137-187), one action per statement that touches the  *)
(* cache, a socket, the bucket or the clock.                               *)
(***************************************************************************)
\* Lines 138-147: receive, log a receive error, fingerprint the message.
\* Recv returns the empty string together with an error.
Recv ==
    /\ status = "running" /\ pc = "Recv"
    /\ received < (IF CouchbaseCache THEN MaxDocMsgs ELSE MaxMsgs)
    /\ received' = received + 1
    /\ \E failed \in BOOLEAN :
         \E data \in (IF failed THEN {MsgEmpty} ELSE Messages) :
            /\ msg' = data
            /\ zmq_err' = failed
            /\ cache_key' = Fingerprint(data)
            /\ hist' = Append(hist, [msg |-> data, err |-> failed,
                                     key |-> Fingerprint(data),
                                     looked |-> FALSE,
                                     resident |-> FALSE,
                                     hit |-> FALSE, admitted |-> FALSE,
                                     sent |-> FALSE, fatal |-> FALSE])
    /\ pc' = "Get"
    /\ UNCHANGED <<status, exitCode, life, CouchbaseCache, cache, decoded, m,
                   idx, now, elapsed, outbound, bucket, tests, prior>>

\* Mutant: the hit is not acted on, the message is treated as new.
Get_IgnoresHit ==
    /\ status = "running" /\ pc = "Get"
    /\ cache' = LRUGet(cache, cache_key)
    /\ hist' = [hist EXCEPT ![Len(hist)].looked = TRUE,
                            ![Len(hist)].resident = Has(cache, cache_key),
                            ![Len(hist)].hit = Has(cache, cache_key)]
    /\ pc' = "Set" /\ UNCHANGED locals
    /\ UNCHANGED <<status, exitCode, life, CouchbaseCache, now, elapsed,
                   outbound, bucket, tests, received, prior>>

\* Mutant: a hit skips the forward but still runs the decode path.
Get_HitDecodes ==
    /\ status = "running" /\ pc = "Get"
    /\ cache' = LRUGet(cache, cache_key)
    /\ hist' = [hist EXCEPT ![Len(hist)].looked = TRUE,
                            ![Len(hist)].resident = Has(cache, cache_key),
                            ![Len(hist)].hit = Has(cache, cache_key)]
    /\ pc' = (IF Has(cache, cache_key) THEN "Decode" ELSE "Set")
    /\ UNCHANGED locals
    /\ UNCHANGED <<status, exitCode, life, CouchbaseCache, now, elapsed,
                   outbound, bucket, tests, received, prior>>

\* Mutant: the lookup does not touch the recency order.
Get_NoPromote ==
    /\ status = "running" /\ pc = "Get"
    /\ cache' = cache
    /\ hist' = [hist EXCEPT ![Len(hist)].looked = TRUE,
                            ![Len(hist)].resident = Has(cache, cache_key),
                            ![Len(hist)].hit = Has(cache, cache_key)]
    /\ IF Has(cache, cache_key)
       THEN pc' = "Recv" /\ LocalsCleared
       ELSE pc' = "Set" /\ UNCHANGED locals
    /\ UNCHANGED <<status, exitCode, life, CouchbaseCache, now, elapsed,
                   outbound, bucket, tests, received, prior>>

\* Lines 149-153: look the key up; a hit ends the iteration.
Get ==
    /\ status = "running" /\ pc = "Get"
    /\ cache' = LRUGet(cache, cache_key)
    /\ hist' = [hist EXCEPT ![Len(hist)].looked = TRUE,
                            ![Len(hist)].resident = Has(cache, cache_key),
                            ![Len(hist)].hit = Has(cache, cache_key)]
    /\ IF Has(cache, cache_key)
       THEN pc' = "Recv" /\ LocalsCleared
       ELSE pc' = "Set" /\ UNCHANGED locals
    /\ UNCHANGED <<status, exitCode, life, CouchbaseCache, now, elapsed,
                   outbound, bucket, tests, received, prior>>

\* Mutant: the insert of line 159 is missing (or comes after the send).
Set_NoInsert ==
    /\ status = "running" /\ pc = "Set"
    /\ cache' = cache
    /\ hist' = Note("admitted", TRUE)
    /\ pc' = "Send"
    /\ UNCHANGED <<status, exitCode, life, CouchbaseCache, locals, now,
                   elapsed, outbound, bucket, tests, received, prior>>

\* Lines 157-159: insert the key.
Set ==
    /\ status = "running" /\ pc = "Set"
    /\ cache' = LRUSet(cache, cache_key)
    /\ hist' = Note("admitted", TRUE)
    /\ pc' = "Send"
    /\ UNCHANGED <<status, exitCode, life, CouchbaseCache, locals, now,
                   elapsed, outbound, bucket, tests, received, prior>>

\* Mutant: the CouchbaseCache test of line 164 is missing.
Send_NoGate ==
    /\ status = "running" /\ pc = "Send"
    /\ outbound' = Append(outbound, msg)
    /\ hist' = Note("sent", TRUE)
    /\ pc' = "Decode" /\ UNCHANGED locals
    /\ UNCHANGED <<status, exitCode, life, CouchbaseCache, cache, now,
                   elapsed, bucket, tests, received, prior>>

\* Lines 163-166: publish the message; without CouchbaseCache the iteration
\* ends here.
Send ==
    /\ status = "running" /\ pc = "Send"
    /\ outbound' = Append(outbound, msg)
    /\ hist' = Note("sent", TRUE)
    /\ IF CouchbaseCache = FALSE
       THEN pc' = "Recv" /\ LocalsCleared
       ELSE pc' = "Decode" /\ UNCHANGED locals
    /\ UNCHANGED <<status, exitCode, life, CouchbaseCache, cache, now,
                   elapsed, bucket, tests, received, prior>>

\* Lines 167-171: inflate the message; log.Fatal ends the process with
\* status 1 when that fails.
Decode ==
    /\ status = "running" /\ pc = "Decode"
    /\ IF ZlibDecode(msg).err
       THEN /\ status' = "exited"
            /\ exitCode' = 1
            /\ hist' = Note("fatal", TRUE)
            /\ UNCHANGED <<pc, locals>>
       ELSE /\ decoded' = ZlibDecode(msg).decoded
            /\ pc' = "Unmarshal"
            /\ UNCHANGED <<status, exitCode, hist, msg, zmq_err, cache_key,
                           m, idx>>
    /\ UNCHANGED <<life, CouchbaseCache, cache, now, elapsed, outbound,
                   bucket, tests, received, prior>>

\* Lines 172-173: parse into m; the error is assigned and never read.  Then
\* the range loop starts.
UnmarshalMsg ==
    /\ status = "running" /\ pc = "Unmarshal"
    /\ LET parsed == Unmarshal(decoded).m
       IN  IF Len(parsed.Rowsets) = 0
           THEN pc' = "Recv" /\ LocalsCleared
           ELSE /\ pc' = "Range"
                /\ m' = parsed
                /\ idx' = 1
                /\ UNCHANGED <<msg, zmq_err, cache_key, decoded>>
    /\ UNCHANGED <<status, exitCode, life, CouchbaseCache, cache, now,
                   elapsed, outbound, bucket, tests, hist, received,
                   prior>>

\* Line 174: the freshness test on the rowset at idx, reading the clock.
Range ==
    /\ status = "running" /\ pc = "Range"
    /\ IF IsRecent(m.Rowsets[idx].GeneratedAt, now)
       THEN pc' = "Put" /\ UNCHANGED locals
       ELSE IF idx + 1 > Len(m.Rowsets)
            THEN pc' = "Recv" /\ LocalsCleared
            ELSE /\ pc' = "Range"
                 /\ idx' = idx + 1
                 /\ UNCHANGED <<msg, zmq_err, cache_key, decoded, m>>
    /\ tests' = Append(tests, [iter |-> Len(hist), idx |-> idx,
                               rowset |-> m.Rowsets[idx], clock |-> now,
                               passed |-> IsRecent(m.Rowsets[idx].GeneratedAt,
                                                   now)])
    /\ UNCHANGED <<status, exitCode, life, CouchbaseCache, cache, now,
                   elapsed, outbound, bucket, hist, received, prior>>

\* Lines 176-183: the document key.
DocKey(element, envelope) ==
    Itoa(element.RegionID) \o "-" \o Itoa(element.TypeID) \o "-"
        \o envelope.ResultType

\* Line 175: the document, reading the clock again.
EMDRDoc(element, envelope, clock) ==
    [Region |-> element.RegionID,
     ItemID |-> element.TypeID,
     InsertTime |-> Int32(clock),
     UploadKeys |-> envelope.UploadKeys,
     ResultType |-> envelope.ResultType]

\* Lines 175-184: build the document and its key and upsert it; the result
\* of b.Set is dropped.  Then the range loop moves on.
\* Mutant: a failed upsert ends the process like a failed decode does.
Put_FatalOnError ==
    /\ status = "running" /\ pc = "Put"
    /\ \E ok \in BOOLEAN :
         /\ bucket' = Append(bucket, [key |-> DocKey(m.Rowsets[idx], m),
                                      val |-> EMDRDoc(m.Rowsets[idx], m, now),
                                      ok |-> ok,
                                      at |-> now,
                                      iter |-> Len(hist), idx |-> idx,
                                      rowset |-> m.Rowsets[idx],
                                      envelope |-> m])
         /\ IF ~ok
            THEN /\ status' = "exited" /\ exitCode' = 1
                 /\ UNCHANGED <<pc, locals>>
            ELSE /\ UNCHANGED <<status, exitCode>>
                 /\ IF idx + 1 > Len(m.Rowsets)
                    THEN pc' = "Recv" /\ LocalsCleared
                    ELSE /\ pc' = "Range"
                         /\ idx' = idx + 1
                         /\ UNCHANGED <<msg, zmq_err, cache_key, decoded, m>>
    /\ UNCHANGED <<life, CouchbaseCache, cache, now,
                   elapsed, outbound, tests, hist, received, prior>>

Put ==
    /\ status = "running" /\ pc = "Put"
    /\ \E ok \in BOOLEAN :
         bucket' = Append(bucket, [key |-> DocKey(m.Rowsets[idx], m),
                                   val |-> EMDRDoc(m.Rowsets[idx], m, now),
                                   ok |-> ok,
                                   at |-> now,
                                   iter |-> Len(hist), idx |-> idx,
                                   rowset |-> m.Rowsets[idx],
                                   envelope |-> m])
    /\ IF idx + 1 > Len(m.Rowsets)
       THEN pc' = "Recv" /\ LocalsCleared
       ELSE /\ pc' = "Range"
            /\ idx' = idx + 1
            /\ UNCHANGED <<msg, zmq_err, cache_key, decoded, m>>
    /\ UNCHANGED <<status, exitCode, life, CouchbaseCache, cache, now,
                   elapsed, outbound, tests, hist, received, prior>>

(***************************************************************************)
(* The supervisor goroutine, the clock and the process manager.            *)
(***************************************************************************)
\* Mutant: the supervisor empties the cache of the loop before it exits.
periodic_exiter_Flushes ==
    /\ status = "running"
    /\ status' = "exited"
    /\ exitCode' = 0
    /\ cache' = NewLRUCache(cache_size_limit)
    /\ UNCHANGED <<life, pc, CouchbaseCache, locals, now, elapsed,
                   outbound, bucket, tests, hist, received, prior>>

\* Mutant: the exit waits for the loop to finish its iteration.
periodic_exiter_Drains ==
    /\ status = "running"
    /\ pc = "Recv"
    /\ status' = "exited"
    /\ exitCode' = 0
    /\ UNCHANGED <<life, pc, CouchbaseCache, cache, locals, now, elapsed,
                   outbound, bucket, tests, hist, received, prior>>

\* Lines 87-100: on a tick of the 12 hour ticker, os.Exit(0).  The ticker
\* runs on the monotonic clock, which the model does not tie to the wall
\* clock: a tick can come at any point of the loop.
periodic_exiter ==
    /\ status = "running"
    /\ status' = "exited"
    /\ exitCode' = 0
    /\ UNCHANGED <<life, pc, CouchbaseCache, cache, locals, now, elapsed,
                   outbound, bucket, tests, hist, received, prior>>

\* A second passes on the wall clock.  Only lines 174 and 175 read the
\* clock, so the model lets it advance right before these reads only.
ClockAdvance ==
    /\ status = "running"
    /\ pc \in {"Range", "Put"}
    /\ elapsed < MaxElapsed
    /\ now' = AddSecs(now, 1)
    /\ elapsed' = elapsed + 1
    /\ UNCHANGED <<status, exitCode, life, pc, CouchbaseCache, cache, locals,
                   outbound, bucket, tests, hist, received, prior>>

\* The process manager starts the program again: main runs from the top
\* (lines 102-135) with a new cache and the same config.json.
\* Mutant: the cache of the exited process is handed to the new one.
Restart_KeepsCache ==
    /\ status = "exited"
    /\ life < MaxRestarts
    /\ status' = "running"
    /\ exitCode' = 0 - 1
    /\ life' = life + 1
    /\ pc' = "Recv"
    /\ cache' = cache
    /\ LocalsCleared
    /\ outbound' = <<>>
    /\ bucket' = <<>>
    /\ tests' = <<>>
    /\ hist' = <<>>
    /\ prior' = prior \cup {cache.list[i] : i \in DOMAIN cache.list}
    /\ UNCHANGED <<CouchbaseCache, now, elapsed, received>>

Restart ==
    /\ status = "exited"
    /\ life < MaxRestarts
    /\ status' = "running"
    /\ exitCode' = 0 - 1
    /\ life' = life + 1
    /\ pc' = "Recv"
    /\ cache' = NewLRUCache(cache_size_limit)
    /\ LocalsCleared
    /\ outbound' = <<>>
    /\ bucket' = <<>>
    /\ tests' = <<>>
    /\ hist' = <<>>
    /\ prior' = prior \cup {cache.list[i] : i \in DOMAIN cache.list}
    /\ UNCHANGED <<CouchbaseCache, now, elapsed, received>>

Next ==
    \/ Recv
    \/ Get
    \/ Set
    \/ Send
    \/ Decode
    \/ UnmarshalMsg
    \/ Range
    \/ Put
    \/ periodic_exiter
    \/ ClockAdvance
    \/ Restart

Spec == Init /\ [][Next]_vars

(***************************************************************************)
(* Vocabulary of the properties.                                           *)
(***************************************************************************)
Keys(c) == {c.list[i] : i \in DOMAIN c.list}

\* The keys the loop fingerprinted before iteration i of this process.
SeenBefore(i) == {hist[j].key : j \in 1..(i - 1)}

\* Iteration i has executed its cache.Get (hit) or its cache.Set.
Accessed(i) == hist[i].hit \/ hist[i].admitted

\* Iteration i is past line 163.
PastSend(i) == i < Len(hist) \/ pc \notin {"Get", "Set", "Send"}

\* The iterations after i that have accessed the cache.
Later(i) == {t \in (i + 1)..Len(hist) : Accessed(t)}

Sent == {i \in DOMAIN hist : hist[i].sent}

C2_CacheWithinCapacity ==
    /\ Len(cache.list) <= CacheSlots
    /\ Len(cache.list) * cache_value_size <= cache_size_limit
    /\ \A i, j \in DOMAIN cache.list :
         cache.list[i] = cache.list[j] => i = j

\* The cache is full and has already evicted a key.
C2_Witness ==
    /\ Len(cache.list) = CacheSlots
    /\ \E i \in DOMAIN hist : hist[i].admitted /\ ~Has(cache, hist[i].key)

(***************************************************************************)
(* C3: cache.Set of a new key into a full cache evicts exactly the least   *)
(* recently used key.  After CacheSlots + 1 iterations in a row with       *)
(* distinct keys the first of these keys is out of the cache, and a        *)
(* message with that key arriving next misses and is forwarded again.      *)
(***************************************************************************)
C3_Window(i) == i..(i + CacheSlots)

C3_DistinctRun(i) ==
    /\ i + CacheSlots \in DOMAIN hist
    /\ \A a, b \in C3_Window(i) : hist[a].key = hist[b].key => a = b
    /\ Accessed(i + CacheSlots)

C3_EvictedThenForwarded ==
    \A i \in DOMAIN hist :
        C3_DistinctRun(i) =>
           /\ i + CacheSlots = Len(hist) => ~Has(cache, hist[i].key)
           /\ (/\ i + CacheSlots + 1 \in DOMAIN hist
               /\ hist[i + CacheSlots + 1].key = hist[i].key
               /\ hist[i + CacheSlots + 1].looked)
                 => /\ ~hist[i + CacheSlots + 1].resident
                    /\ PastSend(i + CacheSlots + 1)
                          => hist[i + CacheSlots + 1].sent

C3_SetStep ==
    (pc = "Set" /\ pc' = "Send" /\ Len(cache.list) = CacheSlots
        /\ ~Has(cache, cache_key))
      => cache'.list = <<cache_key>> \o SubSeq(cache.list, 1, CacheSlots - 1)

C3_EvictsLeastRecentlyUsed ==
    [][C3_SetStep]_vars /\ []C3_EvictedThenForwarded

\* CacheSlots + 1 distinct keys, then the first again: forwarded twice.
C3_Witness ==
    \E i \in DOMAIN hist :
        /\ C3_DistinctRun(i)
        /\ hist[i].sent
        /\ i + CacheSlots + 1 \in DOMAIN hist
        /\ hist[i + CacheSlots + 1].key = hist[i].key
        /\ hist[i + CacheSlots + 1].sent

(***************************************************************************)
(* C4 as stated: after a hit on a key, the key stays in the cache until    *)
(* CacheSlots further keys that were not in the cache have been admitted.  *)
(***************************************************************************)
C4_Original ==
    \A i \in DOMAIN hist :
        (/\ hist[i].hit
         /\ \A t \in (i + 1)..Len(hist) : hist[t].key # hist[i].key
         /\ Cardinality({hist[t].key : t \in {u \in Later(i) :
                                               hist[u].admitted}})
               < CacheSlots)
          => Has(cache, hist[i].key)

(***************************************************************************)
(* C4: a hit makes the key the most recently used one.  After the hit the  *)
(* key stays in the cache, and messages with it are dropped, until         *)
(* CacheSlots other distinct keys have been looked up (hit or admitted)    *)
(* since; keys last accessed before the hit leave the cache before it.     *)
(***************************************************************************)
C4_OthersSince(i) == {hist[t].key : t \in Later(i)} \ {hist[i].key}

C4_HitPromotes ==
    \A i \in DOMAIN hist :
        hist[i].hit =>
           /\ (/\ \A t \in Later(i) : hist[t].key # hist[i].key
               /\ Cardinality(C4_OthersSince(i)) < CacheSlots)
                 => Has(cache, hist[i].key)
           /\ \A j \in (i + 1)..Len(hist) :
                 (/\ hist[j].key = hist[i].key
                  /\ hist[j].looked
                  /\ \A t \in (i + 1)..(j - 1) : hist[t].key # hist[i].key
                  /\ Cardinality({hist[t].key : t \in (i + 1)..(j - 1)})
                        < CacheSlots)
                   => (hist[j].hit /\ ~hist[j].sent)
           /\ \A t \in 1..(i - 1) :
                 (/\ Accessed(t)
                  /\ \A u \in Later(t) : hist[u].key # hist[t].key
                  /\ \A u \in Later(i) : hist[u].key # hist[i].key
                  /\ Has(cache, hist[t].key))
                   => Has(cache, hist[i].key)

\* A hit on the least recently used key, then an admission into the full
\* cache: the key that was hit stays, the other one is evicted.
C4_Witness ==
    \E i \in DOMAIN hist :
        /\ hist[i].hit
        /\ Len(hist) = i + 1
        /\ hist[i + 1].admitted
        /\ hist[i + 1].key # hist[i].key
        /\ Has(cache, hist[i].key)
        /\ \E t \in 1..(i - 1) :
              /\ hist[t].admitted
              /\ hist[t].key \notin {hist[i].key, hist[i + 1].key}
              /\ ~Has(cache, hist[t].key)
              /\ \E u \in 1..(t - 1) : hist[u].key = hist[i].key

(***************************************************************************)
(* C5: an iteration whose receive failed changes nothing: its key is not   *)
(* inserted into the cache, nothing is published and nothing is stored.    *)
(***************************************************************************)
C5_RecvErrorSkipsIteration ==
    \A i \in DOMAIN hist :
        hist[i].err =>
           /\ ~hist[i].admitted
           /\ ~hist[i].sent
           /\ \A w \in DOMAIN bucket : bucket[w].iter # i

(***************************************************************************)
(* C6: a message that does not inflate never ends the process: the process *)
(* only ever exits with status 0, from the supervisor.                     *)
(***************************************************************************)
C6_DecodeFailureNotFatal ==
    /\ \A i \in DOMAIN hist : ZlibDecode(hist[i].msg).err => ~hist[i].fatal
    /\ status = "exited" => exitCode = 0

(***************************************************************************)
(* C7: no document is written to the bucket for a message whose text does  *)
(* not parse as an EMDRMsg.                                                *)
(***************************************************************************)
ParseFails(bytes) ==
    ZlibDecode(bytes).err \/ Unmarshal(ZlibDecode(bytes).decoded).err

C7_ParseFailureWritesNothing ==
    \A w \in DOMAIN bucket :
        bucket[w].ok => ~ParseFails(hist[bucket[w].iter].msg)

(***************************************************************************)
(* C8: with CouchbaseCache false, b.Set is never called and the decode     *)
(* path is never entered, while every message that misses the cache is     *)
(* still inserted and published.                                           *)
(***************************************************************************)
C8_DisabledNeverWrites ==
    CouchbaseCache = FALSE =>
       /\ bucket = <<>>
       /\ tests = <<>>
       /\ pc \notin {"Decode", "Unmarshal", "Range", "Put"}
       /\ \A i \in DOMAIN hist :
             (hist[i].looked /\ ~hist[i].resident /\ PastSend(i))
                => (hist[i].admitted /\ hist[i].sent)

\* The well-formed document, with a rowset inside the hour, was forwarded
\* and the iteration is over; nothing was stored.
C8_Witness ==
    /\ CouchbaseCache = FALSE
    /\ now = T0
    /\ pc = "Recv"
    /\ \E i \in DOMAIN hist :
          /\ hist[i].msg = MsgValid /\ ~hist[i].err
          /\ hist[i].admitted /\ hist[i].sent
          /\ outbound[Len(outbound)] = MsgValid
    /\ bucket = <<>>

(***************************************************************************)
(* C9: a rowset of a message that decoded passes the test of line 174,     *)
(* and is then upserted, exactly when its generation time is at or after   *)
(* the clock minus 3600 seconds, whatever the clock reads.                 *)
(***************************************************************************)
\* generatedAt >= clock - 3600, on the int64 values.
WithinHour(generatedAt, clock) == TimeLeq(clock, AddSecs(generatedAt, 3600))

C9_UpsertIffWithinHour ==
    /\ \A t \in DOMAIN tests :
          ~ParseFails(hist[tests[t].iter].msg) =>
             (tests[t].passed
                <=> WithinHour(tests[t].rowset.GeneratedAt, tests[t].clock))
    /\ \A w \in DOMAIN bucket :
          \E t \in DOMAIN tests :
             /\ tests[t].iter = bucket[w].iter
             /\ tests[t].idx = bucket[w].idx
             /\ tests[t].passed

(***************************************************************************)
(* C10: every document is stored under decimal(RegionID) "-"               *)
(* decimal(TypeID) "-" ResultType and carries the rowset's region and type *)
(* ids, the envelope's upload keys and result type, and the clock at the   *)
(* time it is built as InsertTime.                                         *)
(***************************************************************************)
C10_DocumentKeyAndFields ==
    \A w \in DOMAIN bucket :
        LET d == bucket[w] IN
        /\ d.key = Itoa(d.rowset.RegionID) \o "-" \o Itoa(d.rowset.TypeID)
                       \o "-" \o d.envelope.ResultType
        /\ (d.rowset.RegionID = 10000210 /\ d.rowset.TypeID = 34
               /\ d.envelope.ResultType = "history")
              => d.key = "10000210-34-history"
        /\ d.val.Region = d.rowset.RegionID
        /\ d.val.ItemID = d.rowset.TypeID
        /\ d.val.UploadKeys = d.envelope.UploadKeys
        /\ d.val.ResultType = d.envelope.ResultType
        /\ d.at.hi = 0 /\ d.val.InsertTime = d.at.lo

(***************************************************************************)
(* C11: what the process has published is, in order, the messages of the   *)
(* iterations that received a message and forwarded it: a subsequence of   *)
(* the received messages, each one byte for byte, and nothing else.        *)
(***************************************************************************)
RECURSIVE ForwardedOf(_)
\* The messages of the iterations in h that received one and sent it.
ForwardedOf(h) ==
    IF h = <<>> THEN <<>>
    ELSE IF Head(h).sent /\ ~Head(h).err
         THEN <<Head(h).msg>> \o ForwardedOf(Tail(h))
         ELSE ForwardedOf(Tail(h))

C11_OutboundSubsequenceOfInbound ==
    /\ outbound = ForwardedOf(hist)
    /\ \A i \in DOMAIN hist : hist[i].sent => ~hist[i].err

(***************************************************************************)
(* C12: while the process runs the supervisor's exit is possible at every  *)
(* statement of the loop, and the step that takes it ends the process with *)
(* status 0 and touches nothing else: no statement of the loop is          *)
(* completed, nothing is published or stored on the way out.               *)
(***************************************************************************)
C12_TickStep ==
    (status = "running" /\ status' = "exited" /\ exitCode' = 0)
       => UNCHANGED <<pc, cache, locals, outbound, bucket, tests, hist,
                      CouchbaseCache, life>>

C12_ExitAnywhere == status = "running" => ENABLED periodic_exiter

C12_TickExitsUnconditionally == []C12_ExitAnywhere /\ [][C12_TickStep]_vars

\* The process exited with status 0 between cache.Set and sender.Send.
C12_Witness ==
    /\ status = "exited" /\ exitCode = 0
    /\ pc = "Send"
    /\ hist[Len(hist)].admitted /\ ~hist[Len(hist)].sent
    /\ outbound = <<>>

(***************************************************************************)
(* C13: when sender.Send publishes a message, cache.Set of its fingerprint *)
(* has been executed in the same iteration and the fingerprint is in the   *)
(* cache, before and after the step that publishes.                        *)
(***************************************************************************)
C13_SendStep ==
    (status = "running" /\ pc = "Send" /\ outbound' # outbound)
       => /\ outbound' = Append(outbound, msg)
          /\ Has(cache, Fingerprint(msg))
          /\ Has(cache', Fingerprint(msg))

C13_SetDone ==
    /\ \A i \in DOMAIN hist : hist[i].sent => hist[i].admitted
    /\ pc = "Send" => (hist[Len(hist)].admitted /\ Has(cache, cache_key))

C13_SetBeforeSend == []C13_SetDone /\ [][C13_SendStep]_vars

\* A message has just been published and its key leads the cache.
C13_Witness ==
    /\ status = "running" /\ pc = "Decode"
    /\ hist[Len(hist)].sent
    /\ outbound[Len(outbound)] = msg
    /\ cache.list[1] = Fingerprint(msg)

(***************************************************************************)
(* C14: an iteration whose lookup hits inserts nothing, publishes nothing, *)
(* tests and stores no rowset and is back at the receive; the decode path  *)
(* and every b.Set call belong to an iteration that missed, inserted its   *)
(* key and published its message before.                                   *)
(***************************************************************************)
C14_PersistOnlyNovel ==
    /\ \A i \in DOMAIN hist :
          hist[i].hit =>
             /\ ~hist[i].admitted /\ ~hist[i].sent
             /\ \A w \in DOMAIN bucket : bucket[w].iter # i
             /\ \A t \in DOMAIN tests : tests[t].iter # i
             /\ i = Len(hist) => pc = "Recv"
    /\ \A w \in DOMAIN bucket :
          /\ bucket[w].iter \in DOMAIN hist
          /\ hist[bucket[w].iter].looked /\ ~hist[bucket[w].iter].hit
          /\ hist[bucket[w].iter].admitted /\ hist[bucket[w].iter].sent
    /\ pc \in {"Decode", "Unmarshal", "Range", "Put"}
          => (hist[Len(hist)].admitted /\ hist[Len(hist)].sent
                 /\ outbound # <<>> /\ outbound[Len(outbound)] = msg)

\* A document was stored for a message and its duplicate was dropped.
C14_Witness ==
    /\ pc = "Recv" /\ status = "running"
    /\ \E i \in DOMAIN hist :
          /\ hist[i].hit
          /\ \E j \in 1..(i - 1) :
                /\ hist[j].msg = hist[i].msg
                /\ \E w \in DOMAIN bucket : bucket[w].iter = j /\ bucket[w].ok
    /\ Len(outbound) < Len(hist)


(***************************************************************************)
(* C15: the relay loop never ends the process: every step that takes a     *)
(* running process to a terminated one is the supervisor's tick, which     *)
(* reports success and leaves the loop where it was.                       *)
(***************************************************************************)
C15_ExitStep ==
    (status = "running" /\ status' = "exited")
       => (exitCode' = 0 /\ pc' = pc /\ hist' = hist)

C15_OnlySupervisorTerminates == [][C15_ExitStep]_vars


(***************************************************************************)
(* C16: a b.Set call that fails leaves the process running, the cache, the *)
(* published messages and the iteration's record as they were, and moves   *)
(* the loop to the next rowset of the message or, after the last one, to   *)
(* the receive; no rowset of a message is handed to b.Set twice.           *)
(***************************************************************************)
C16_PutStep ==
    (status = "running" /\ pc = "Put" /\ Len(bucket') = Len(bucket) + 1
        /\ ~bucket'[Len(bucket')].ok)
       => /\ status' = "running"
          /\ UNCHANGED <<cache, outbound, hist, exitCode>>
          /\ IF idx < Len(m.Rowsets)
             THEN pc' = "Range" /\ idx' = idx + 1 /\ m' = m
             ELSE pc' = "Recv"

C16_OneAttempt ==
    /\ \A v, w \in DOMAIN bucket :
          (bucket[v].iter = bucket[w].iter /\ bucket[v].idx = bucket[w].idx)
             => v = w
    /\ \A w \in DOMAIN bucket :
          hist[bucket[w].iter].sent /\ ~hist[bucket[w].iter].fatal

C16_FailedUpsertNotFatalNotRetried == []C16_OneAttempt /\ [][C16_PutStep]_vars

\* A failed upsert was followed by the upsert of the next rowset of the same
\* message and by the receive of the next message.
C16_Witness ==
    /\ status = "running"
    /\ \E v, w \in DOMAIN bucket :
          /\ w = v + 1
          /\ ~bucket[v].ok
          /\ bucket[w].iter = bucket[v].iter
          /\ bucket[w].idx = bucket[v].idx + 1
          /\ Len(hist) > bucket[v].iter
          /\ hist[bucket[v].iter].sent


(***************************************************************************)
(* C17: the cache is read and written by the relay loop only, at its       *)
(* cache.Get and cache.Set statements, one statement at a time; the        *)
(* supervisor's step touches neither the cache nor any variable of the     *)
(* loop, it only ends the process.                                         *)
(***************************************************************************)
C17_CacheUsed ==
    \/ cache' # cache
    \/ /\ Len(hist') = Len(hist) /\ hist # <<>>
       /\ \/ hist'[Len(hist)].looked # hist[Len(hist)].looked
          \/ hist'[Len(hist)].admitted # hist[Len(hist)].admitted

C17_CacheStep ==
    C17_CacheUsed
       => \/ /\ status = "running" /\ status' = "running"
             /\ pc \in {"Get", "Set"} /\ pc' # pc
          \/ status = "exited" /\ status' = "running"

C17_SupervisorStep ==
    (status = "running" /\ status' = "exited" /\ exitCode' = 0)
       => UNCHANGED <<cache, locals, hist>>

C17_SingleCacheUser == [][C17_CacheStep /\ C17_SupervisorStep]_vars

\* The supervisor fired between the cache.Get and the cache.Set of an
\* iteration, with an entry of an earlier iteration in the cache.
C17_Witness ==
    /\ status = "exited" /\ exitCode = 0
    /\ pc = "Set"
    /\ hist[Len(hist)].looked /\ ~hist[Len(hist)].admitted
    /\ cache.list # <<>>
    /\ ~Has(cache, cache_key)


(***************************************************************************)
(* C18: a process starts with an empty cache whatever the cache of the     *)
(* process before it held, and the cache holds keys of its own process     *)
(* only; the first message of a process with a given fingerprint misses    *)
(* and is forwarded, also when the fingerprint was in the cache of an      *)
(* earlier process at its exit.                                            *)
(***************************************************************************)
C18_StartStep ==
    (status = "exited" /\ status' = "running")
       => (cache'.list = <<>> /\ cache'.capacity = cache_size_limit)

C18_OwnKeysOnly ==
    /\ Keys(cache) \subseteq {hist[j].key : j \in DOMAIN hist}
    /\ \A i \in DOMAIN hist :
          (hist[i].looked /\ hist[i].key \in prior
              /\ hist[i].key \notin SeenBefore(i))
             => /\ ~hist[i].resident
                /\ PastSend(i) => (hist[i].admitted /\ hist[i].sent)

RECURSIVE C19_ByLastReceipt(_)
C19_ByLastReceipt(h) ==
    IF h = <<>> THEN <<>>
    ELSE LET last == h[Len(h)]
             before == C19_ByLastReceipt(SubSeq(h, 1, Len(h) - 1))
         IN  IF last.err THEN before
             ELSE <<last.key>> \o SelectSeq(before, LAMBDA k : k # last.key)

C19_MostRecent(h) ==
    LET all == C19_ByLastReceipt(h)
    IN  SubSeq(all, 1, IF Len(all) < CacheSlots THEN Len(all) ELSE CacheSlots)

C19_CacheIsRecentReceived ==
    /\ pc = "Recv" => cache.list = C19_MostRecent(hist)
    /\ \A i \in DOMAIN hist :
          (hist[i].looked /\ ~hist[i].err) =>
             LET recent == C19_MostRecent(SubSeq(hist, 1, i - 1))
             IN  hist[i].resident
                    <=> \E n \in DOMAIN recent : recent[n] = hist[i].key


(***************************************************************************)
(* C20: the loop executes cache.Set only after the cache.Get of the same   *)
(* iteration missed for the same key, so the key is not in the cache; the  *)
(* insert grows a cache below CacheSlots entries by exactly one entry and  *)
(* evicts exactly one entry of a full cache.  No step of a running process *)
(* makes the cache smaller, so a full cache stays full.                    *)
(***************************************************************************)
C20_SetStep ==
    (status = "running" /\ pc = "Set" /\ pc' = "Send")
       => /\ hist[Len(hist)].looked /\ ~hist[Len(hist)].resident
          /\ hist[Len(hist)].key = cache_key
          /\ ~Has(cache, cache_key)
          /\ Has(cache', cache_key)
          /\ IF Len(cache.list) < CacheSlots
             THEN /\ Len(cache'.list) = Len(cache.list) + 1
                  /\ Keys(cache) \subseteq Keys(cache')
             ELSE /\ Len(cache'.list) = CacheSlots
                  /\ Cardinality(Keys(cache) \ Keys(cache')) = 1

C20_SizeStep ==
    status = "running" => Len(cache'.list) >= Len(cache.list)

C20_SetAfterMissSizeMonotone == [][C20_SetStep /\ C20_SizeStep]_vars

\* An insert into a full cache has just evicted a key; the iteration before
\* it was a hit that left the full cache as large as it was.
C20_Witness ==
    /\ status = "running" /\ pc = "Send"
    /\ Len(cache.list) = CacheSlots
    /\ cache.list[1] = cache_key
    /\ Len(hist) >= CacheSlots + 2
    /\ hist[Len(hist)].admitted
    /\ hist[Len(hist) - 1].hit
    /\ \E i \in DOMAIN hist : hist[i].admitted /\ ~Has(cache, hist[i].key)

====
